---- MODULE Spec2Model ----
(***************************************************************************)
(* Model of packages/cli/src/commands/serve/serve.ts (serveMesh): the      *)
(* cluster fan-out of the master process, the start-up of a serving        *)
(* process (express route table, handler resolution, bind) and the         *)
(* dispatch of HTTP requests over the mounted route table.                 *)
(***************************************************************************)
EXTENDS Naturals, Sequences, FiniteSets, TLC

\* ------------------------------------------------------------------ bounds
MaxFork == 2
MaxCpus == 2
MaxHandlers == 2

\* ------------------------------------------------- optional values, strings
\* An optional configuration value: None is `undefined`, Some(v) is v.
None == <<>>
Some(v) == <<v>>
IsSome(o) == Len(o) = 1
Val(o) == o[1]

\* Strings whose characters matter are sequences of characters.
EmptyStr == <<>>
StrUse == <<"u", "s", "e">>
StrGet == <<"g", "e", "t">>
StrPost == <<"p", "o", "s", "t">>
StrGET == <<"G", "E", "T">>
StrPOST == <<"P", "O", "S", "T">>
StrMixedPost == <<"P", "o", "s", "t">>
StrProduction == <<"p", "r", "o", "d", "u", "c", "t", "i", "o", "n">>
StrPRODUCTION == <<"P", "R", "O", "D", "U", "C", "T", "I", "O", "N">>
StrTest == <<"t", "e", "s", "t">>

LowerChar(c) ==
  CASE c = "G" -> "g" [] c = "E" -> "e" [] c = "T" -> "t"
    [] c = "P" -> "p" [] c = "O" -> "o" [] c = "S" -> "s"
    [] c = "R" -> "r" [] c = "D" -> "d" [] c = "U" -> "u"
    [] c = "C" -> "c" [] c = "I" -> "i" [] c = "N" -> "n"
    [] OTHER -> c

\* String.prototype.toLowerCase
toLowerCase(s) == [k \in 1..Len(s) |-> LowerChar(s[k])]

\* --------------------------------------------------------------- processes
MaxWorkers == IF MaxFork > MaxCpus THEN MaxFork ELSE MaxCpus
Procs == 0..MaxWorkers

\* A process that takes itself for the master whatever its role.
isMasterAlways(p) == TRUE

\* cluster.isMaster: the initial process is the master, forked ones are not.
isMaster(p) == p = 0

\* ------------------------------------------------------------ JSON values
Undefined == [t |-> "undefined"]
Num(n) == [t |-> "number", n |-> n]
Obj(f) == [t |-> "object", f |-> f]

\* lodash get(object, path): follows the keys; a missing key or a non-object
\* on the way yields undefined.
RECURSIVE get(_, _)
get(v, keys) ==
  IF keys = <<>> THEN v
  ELSE IF v.t = "object" /\ Head(keys) \in DOMAIN v.f
       THEN get(v.f[Head(keys)], Tail(keys))
       ELSE Undefined

\* ---------------------------------------------------------- handler entries
\* YamlConfig handler entries: an express handler ('handler' in handlerConfig)
\* or a webhook ('pubsubTopic' in handlerConfig).
DynamicHandler(path, method) ==
  [kind |-> "handler", path |-> path, method |-> method,
   pubsubTopic |-> "", payload |-> None]
WebhookBridge(path, topic, payload) ==
  [kind |-> "pubsubTopic", path |-> path, method |-> None,
   pubsubTopic |-> topic, payload |-> payload]

PathRoot == <<>>
PathA == <<"a">>
PathAX == <<"a", "x">>
PathB == <<"b">>
graphqlPath == <<"graphql">>

VARIABLES config, ncpus, pc, forkI, spawned, server, stack, registeredPaths,
          hstate, error, logs, exchange

vars == <<config, ncpus, pc, forkI, spawned, server, stack, registeredPaths,
          hstate, error, logs, exchange>>

\* ------------------------------------------------------------ configuration
\* YamlConfig.ServeConfig together with process.env.NODE_ENV (nodeEnv).
ServeConfig(fork, ssl, cors, static, playground, nodeEnv, exampleQuery, handlers) ==
  [fork |-> fork, sslCredentials |-> ssl, cors |-> cors, staticFiles |-> static,
   playground |-> playground, nodeEnv |-> nodeEnv, exampleQuery |-> exampleQuery,
   handlers |-> handlers]

ForkValues == {None} \cup {Some(n) : n \in 0..MaxFork}

\* The serving options the fan-out is explored with.
ClusterOptions ==
  { ServeConfig(None, FALSE, FALSE, FALSE, Some(FALSE), None, FALSE, <<>>),
    ServeConfig(None, TRUE, FALSE, FALSE, Some(FALSE), None, FALSE, <<>>),
    ServeConfig(None, FALSE, TRUE, TRUE, Some(FALSE), None, FALSE, <<>>),
    ServeConfig(None, FALSE, FALSE, FALSE, None, None, TRUE, <<>>),
    ServeConfig(None, FALSE, FALSE, FALSE, Some(FALSE), None, FALSE,
                <<DynamicHandler(PathA, Some(StrGET))>>) }

ClusterConfigs ==
  { [o EXCEPT !.fork = f] : o \in ClusterOptions, f \in ForkValues }

\* The handler entries the route table is explored with.
HandlerCatalogue ==
  { DynamicHandler(PathA, Some(StrGET)),
    DynamicHandler(PathB, Some(StrMixedPost)),
    DynamicHandler(PathA, Some(EmptyStr)),
    DynamicHandler(PathB, None),
    WebhookBridge(PathA, "topicA", Some(<<"event">>)),
    WebhookBridge(PathA, "topicB", None),
    WebhookBridge(PathB, "topicB", Some(<<"event", "id">>)) }

HandlerLists ==
  UNION { [1..n -> HandlerCatalogue] : n \in 0..MaxHandlers }

\* The serving options the route table is explored with (fork absent).
RouteOptions ==
  { ServeConfig(None, FALSE, FALSE, FALSE, Some(FALSE), None, FALSE, <<>>),
    ServeConfig(None, FALSE, TRUE, TRUE, Some(TRUE), None, FALSE, <<>>),
    ServeConfig(None, FALSE, FALSE, FALSE, None, Some(StrPRODUCTION), FALSE, <<>>),
    ServeConfig(None, FALSE, FALSE, FALSE, None, Some(StrTest), TRUE, <<>>),
    ServeConfig(None, TRUE, FALSE, TRUE, None, None, FALSE, <<>>) }

RouteConfigs ==
  { [o EXCEPT !.handlers = hs] : o \in RouteOptions, hs \in HandlerLists }

\* JS truthiness of the fork option: undefined and 0 are falsy.
ForkSet(c) == IsSome(c.fork) /\ Val(c.fork) # 0

\* line 49: sslCredentials ? 'https' : 'http'
protocol(c) == IF c.sslCredentials THEN "https" ELSE "http"

\* The comparison of line 54 written as fork >= 1.
forkNumFromOne(c, cpus) == IF Val(c.fork) >= 1 THEN Val(c.fork) ELSE cpus

\* line 54: fork > 1 ? fork : cpus().length
forkNum(c, cpus) == IF Val(c.fork) > 1 THEN Val(c.fork) ELSE cpus

\* Line 136 with NODE_ENV compared as it is, without toLowerCase.
playgroundEnabledCaseSensitive(c) ==
  IF IsSome(c.playground) THEN Val(c.playground)
  ELSE IF IsSome(c.nodeEnv) THEN Val(c.nodeEnv) # StrProduction
       ELSE TRUE

\* line 136: typeof playground !== 'undefined' ? playground
\*           : process.env.NODE_ENV?.toLowerCase() !== 'production'
playgroundEnabled(c) ==
  IF IsSome(c.playground) THEN Val(c.playground)
  ELSE IF IsSome(c.nodeEnv) THEN toLowerCase(Val(c.nodeEnv)) # StrProduction
       ELSE TRUE

\* ---------------------------------------------------------------- logging
InfoServingForks(url, n) ==
  [level |-> "info", msg |-> "Serving GraphQL Mesh", url |-> url,
   forks |-> Some(n), cause |-> ""]
InfoServing(url) ==
  [level |-> "info", msg |-> "Serving GraphQL Mesh", url |-> url,
   forks |-> None, cause |-> ""]
ErrorUnableToStart(e) ==
  [level |-> "error", msg |-> "Unable to start GraphQL-Mesh", url |-> "",
   forks |-> None, cause |-> e]

\* What a failed bind reports in e.message.
BindErrors == {"EADDRINUSE", "EACCES"}

\* ------------------------------------------------------------- route table
Layer(kind, method, path, idx) ==
  [kind |-> kind, method |-> method, path |-> path, idx |-> idx]

\* The handlers the synchronous pass of handlers.map mounts: a webhook entry is
\* mounted at once (line 124); an express handler entry only after its await.
RECURSIVE bridgeLayers(_, _)
bridgeLayers(hs, i) ==
  IF i > Len(hs) THEN <<>>
  ELSE IF hs[i].kind = "pubsubTopic"
       THEN <<Layer("bridge", StrUse, hs[i].path, i)>> \o bridgeLayers(hs, i + 1)
       ELSE bridgeLayers(hs, i + 1)

\* line 122: handlerConfig.method.toLowerCase() || 'use'
mountKey(method) ==
  IF toLowerCase(method) = EmptyStr THEN StrUse ELSE toLowerCase(method)

\* The state in which serveMesh is entered by the initial process.
Boot ==
  /\ pc = [p \in Procs |-> IF p = 0 THEN "start" ELSE "idle"]
  /\ forkI = [p \in Procs |-> 0]
  /\ spawned = [p \in Procs |-> 0]
  /\ server = [p \in Procs |-> "none"]
  /\ stack = [p \in Procs |-> <<>>]
  /\ registeredPaths = [p \in Procs |-> {}]
  /\ hstate = [p \in Procs |-> [i \in 1..Len(config.handlers) |-> "init"]]
  /\ error = [p \in Procs |-> "none"]
  /\ logs = [p \in Procs |-> <<>>]
  /\ exchange = None

Init ==
  /\ config \in ClusterConfigs
  /\ ncpus \in 1..MaxCpus
  /\ Boot

\* ------------------------------------------------------- process supervisor
RECURSIVE sumTo(_, _)
sumTo(f, n) == IF n = 0 THEN f[0] ELSE f[n] + sumTo(f, n - 1)

\* clusterFork() calls made so far by all processes.
TotalSpawned == sumTo(spawned, MaxWorkers)

\* cluster numbers the workers it forks 1, 2, ...
NextWorkerId == TotalSpawned + 1

\* line 53: the role decision.
Start(p) ==
  /\ pc[p] = "start"
  /\ IF isMaster(p) /\ ForkSet(config)
     THEN pc' = [pc EXCEPT ![p] = "fork"] /\ forkI' = [forkI EXCEPT ![p] = 0]
     ELSE pc' = [pc EXCEPT ![p] = "server"] /\ UNCHANGED forkI
  /\ UNCHANGED <<exchange, config, ncpus, spawned, server, stack, registeredPaths,
                 hstate, error, logs>>

\* lines 55-57: one iteration of the fork loop; the forked worker runs
\* serveMesh from its start with the same configuration.
ClusterFork(p) ==
  /\ pc[p] = "fork"
  /\ forkI[p] < forkNum(config, ncpus)
  /\ spawned' = [spawned EXCEPT ![p] = @ + 1]
  /\ forkI' = [forkI EXCEPT ![p] = @ + 1]
  /\ pc' = [q \in Procs |-> IF q = NextWorkerId THEN "start" ELSE pc[q]]
  /\ UNCHANGED <<exchange, config, ncpus, server, stack, registeredPaths, hstate,
                 error, logs>>

\* The else of line 59 dropped: after the loop the master goes on to serve.
LogForksFallThrough(p) ==
  /\ pc[p] = "fork"
  /\ ~(forkI[p] < forkNum(config, ncpus))
  /\ logs' = [logs EXCEPT ![p] =
       Append(@, InfoServingForks(protocol(config), forkNum(config, ncpus)))]
  /\ pc' = [pc EXCEPT ![p] = "server"]
  /\ UNCHANGED <<exchange, config, ncpus, forkI, spawned, server, stack,
                 registeredPaths, hstate, error>>

\* line 58: the loop is over; the master logs and serveMesh returns.
LogForks(p) ==
  /\ pc[p] = "fork"
  /\ ~(forkI[p] < forkNum(config, ncpus))
  /\ logs' = [logs EXCEPT ![p] =
       Append(@, InfoServingForks(protocol(config), forkNum(config, ncpus)))]
  /\ pc' = [pc EXCEPT ![p] = "supervising"]
  /\ UNCHANGED <<exchange, config, ncpus, forkI, spawned, server, stack,
                 registeredPaths, hstate, error>>

\* ---------------------------------------------------------- serving process
\* lines 60-72: express(), then the HTTP or HTTPS server; reading the key or
\* the certificate may fail, which rejects serveMesh.
CreateServer(p) ==
  /\ pc[p] = "server"
  /\ IF config.sslCredentials
     THEN \E readOk \in BOOLEAN :
            IF readOk
            THEN /\ server' = [server EXCEPT ![p] = "https"]
                 /\ pc' = [pc EXCEPT ![p] = "middleware"]
                 /\ UNCHANGED error
            ELSE /\ pc' = [pc EXCEPT ![p] = "rejected"]
                 /\ error' = [error EXCEPT ![p] = "readFile"]
                 /\ UNCHANGED server
     ELSE /\ server' = [server EXCEPT ![p] = "http"]
          /\ pc' = [pc EXCEPT ![p] = "middleware"]
          /\ UNCHANGED error
  /\ UNCHANGED <<exchange, config, ncpus, forkI, spawned, stack, registeredPaths,
                 hstate, logs>>

\* lines 74-83: cors (if configured), JSON body parser, cookie parser.
MountMiddleware(p) ==
  /\ pc[p] = "middleware"
  /\ stack' = [stack EXCEPT ![p] =
       @ \o (IF config.cors THEN <<Layer("cors", StrUse, PathRoot, 0)>> ELSE <<>>)
         \o <<Layer("json", StrUse, PathRoot, 0),
              Layer("cookie", StrUse, PathRoot, 0)>>]
  /\ pc' = [pc EXCEPT ![p] = "static"]
  /\ UNCHANGED <<exchange, config, ncpus, forkI, spawned, server, registeredPaths,
                 hstate, error, logs>>

\* lines 85-91: static files and, when index.html exists, GET /.
MountStatic(p) ==
  /\ pc[p] = "static"
  /\ IF config.staticFiles
     THEN \E indexExists \in BOOLEAN :
            stack' = [stack EXCEPT ![p] =
              @ \o <<Layer("static", StrUse, PathRoot, 0)>>
                \o (IF indexExists
                    THEN <<Layer("index", StrGet, PathRoot, 0)>> ELSE <<>>)]
     ELSE UNCHANGED stack
  /\ pc' = [pc EXCEPT ![p] = "graphql"]
  /\ UNCHANGED <<exchange, config, ncpus, forkI, spawned, server, registeredPaths,
                 hstate, error, logs>>

\* Lines 93-114 without the app.use(pubSubHandler) of line 114.
MountGraphqlNoPubsub(p) ==
  /\ pc[p] = "graphql"
  /\ stack' = [stack EXCEPT ![p] =
       @ \o <<Layer("graphql", StrUse, graphqlPath, 0)>>]
  /\ pc' = [pc EXCEPT ![p] = "handlers"]
  /\ UNCHANGED <<exchange, config, ncpus, forkI, spawned, server, registeredPaths,
                 hstate, error, logs>>

\* lines 93-114: the GraphQL endpoint, the WebSocket server on the same path
\* and the pubsub injection middleware.
MountGraphql(p) ==
  /\ pc[p] = "graphql"
  /\ stack' = [stack EXCEPT ![p] =
       @ \o <<Layer("graphql", StrUse, graphqlPath, 0),
              Layer("pubsub", StrUse, PathRoot, 0)>>]
  /\ pc' = [pc EXCEPT ![p] = "handlers"]
  /\ UNCHANGED <<exchange, config, ncpus, forkI, spawned, server, registeredPaths,
                 hstate, error, logs>>

\* lines 116-133, the synchronous pass of handlers.map: every path is added to
\* registeredPaths, every webhook is mounted, every express handler starts to
\* load (loadFromModuleExportExpression) and is awaited.
MapHandlers(p) ==
  /\ pc[p] = "handlers"
  /\ registeredPaths' = [registeredPaths EXCEPT ![p] =
       {config.handlers[i].path : i \in 1..Len(config.handlers)}]
  /\ stack' = [stack EXCEPT ![p] = @ \o bridgeLayers(config.handlers, 1)]
  /\ hstate' = [hstate EXCEPT ![p] =
       [i \in 1..Len(config.handlers) |->
          IF config.handlers[i].kind = "handler" THEN "pending" ELSE "mounted"]]
  /\ pc' = [pc EXCEPT ![p] = "awaitHandlers"]
  /\ UNCHANGED <<exchange, config, ncpus, forkI, spawned, server, error, logs>>

\* lines 121-122, after the await: the load resolved or rejected; a resolved
\* handler is mounted under app[method.toLowerCase() || 'use'], and reading
\* toLowerCase of an undefined method throws.
ResolveHandler(p, i) ==
  /\ hstate[p][i] = "pending"
  /\ \E loaded \in BOOLEAN :
       IF loaded /\ IsSome(config.handlers[i].method)
       THEN /\ stack' = [stack EXCEPT ![p] =
                 Append(@, Layer("dynamic", mountKey(Val(config.handlers[i].method)),
                                 config.handlers[i].path, i))]
            /\ hstate' = [hstate EXCEPT ![p][i] = "mounted"]
       ELSE /\ hstate' = [hstate EXCEPT ![p][i] =
                 IF loaded THEN "typeError" ELSE "loadError"]
            /\ UNCHANGED stack
  /\ UNCHANGED <<exchange, config, ncpus, pc, forkI, spawned, server, registeredPaths,
                 error, logs>>

\* line 117: Promise.all rejects as soon as one mapper has rejected.
HandlersRejected(p) ==
  /\ pc[p] = "awaitHandlers"
  /\ \E i \in 1..Len(config.handlers) :
       /\ hstate[p][i] \in {"typeError", "loadError"}
       /\ error' = [error EXCEPT ![p] = hstate[p][i]]
  /\ pc' = [pc EXCEPT ![p] = "rejected"]
  /\ UNCHANGED <<exchange, config, ncpus, forkI, spawned, server, stack,
                 registeredPaths, hstate, logs>>

\* Promise.all taken for Promise.allSettled: start-up goes on once no mapper
\* is pending, whatever its outcome.
HandlersSettled(p) ==
  /\ pc[p] = "awaitHandlers"
  /\ \A i \in 1..Len(config.handlers) : hstate[p][i] # "pending"
  /\ pc' = [pc EXCEPT ![p] = "playground"]
  /\ UNCHANGED <<exchange, config, ncpus, forkI, spawned, server, stack,
                 registeredPaths, hstate, error, logs>>

\* Line 117 without the await: start-up goes on while mappers are pending.
HandlersNotAwaited(p) ==
  /\ pc[p] = "awaitHandlers"
  /\ pc' = [pc EXCEPT ![p] = "playground"]
  /\ UNCHANGED <<exchange, config, ncpus, forkI, spawned, server, stack,
                 registeredPaths, hstate, error, logs>>

\* line 117: Promise.all resolves once every mapper has resolved.
HandlersDone(p) ==
  /\ pc[p] = "awaitHandlers"
  /\ \A i \in 1..Len(config.handlers) : hstate[p][i] = "mounted"
  /\ pc' = [pc EXCEPT ![p] = "playground"]
  /\ UNCHANGED <<exchange, config, ncpus, forkI, spawned, server, stack,
                 registeredPaths, hstate, error, logs>>

\* The test of line 147 dropped: the playground is mounted on GET / even when
\* a static root is configured.
MountPlaygroundAtRoot(p) ==
  /\ pc[p] = "playground"
  /\ IF playgroundEnabled(config)
     THEN \E docsOk \in BOOLEAN :
            IF config.exampleQuery /\ ~docsOk
            THEN /\ pc' = [pc EXCEPT ![p] = "rejected"]
                 /\ error' = [error EXCEPT ![p] = "loadDocuments"]
                 /\ UNCHANGED stack
            ELSE /\ stack' = [stack EXCEPT ![p] =
                      @ \o <<Layer("playground", StrGet, PathRoot, 0),
                             Layer("playground", StrGet, graphqlPath, 0),
                             Layer("public", StrUse, PathRoot, 0)>>]
                 /\ pc' = [pc EXCEPT ![p] = "listen"]
                 /\ UNCHANGED error
     ELSE /\ pc' = [pc EXCEPT ![p] = "listen"]
          /\ UNCHANGED <<stack, error>>
  /\ UNCHANGED <<exchange, config, ncpus, forkI, spawned, server, registeredPaths,
                 hstate, logs>>

\* lines 136-152: the playground routes, when enabled; loading the example
\* query documents may fail, which rejects serveMesh.
MountPlayground(p) ==
  /\ pc[p] = "playground"
  /\ IF playgroundEnabled(config)
     THEN \E docsOk \in BOOLEAN :
            IF config.exampleQuery /\ ~docsOk
            THEN /\ pc' = [pc EXCEPT ![p] = "rejected"]
                 /\ error' = [error EXCEPT ![p] = "loadDocuments"]
                 /\ UNCHANGED stack
            ELSE /\ stack' = [stack EXCEPT ![p] =
                      @ \o (IF ~config.staticFiles
                            THEN <<Layer("playground", StrGet, PathRoot, 0)>>
                            ELSE <<>>)
                        \o <<Layer("playground", StrGet, graphqlPath, 0),
                             Layer("public", StrUse, PathRoot, 0)>>]
                 /\ pc' = [pc EXCEPT ![p] = "listen"]
                 /\ UNCHANGED error
     ELSE /\ pc' = [pc EXCEPT ![p] = "listen"]
          /\ UNCHANGED <<stack, error>>
  /\ UNCHANGED <<exchange, config, ncpus, forkI, spawned, server, registeredPaths,
                 hstate, logs>>

\* lines 154-155: httpServer.listen(port, hostname, callback).
Listen(p) ==
  /\ pc[p] = "listen"
  /\ pc' = [pc EXCEPT ![p] = "binding"]
  /\ UNCHANGED <<exchange, config, ncpus, forkI, spawned, server, stack,
                 registeredPaths, hstate, error, logs>>

\* Lines 155-159 without the test of line 156: the callback always logs.
ListeningAlwaysLogs(p) ==
  /\ pc[p] = "binding"
  /\ pc' = [pc EXCEPT ![p] = "listening"]
  /\ logs' = [logs EXCEPT ![p] = Append(@, InfoServing(protocol(config)))]
  /\ UNCHANGED <<exchange, config, ncpus, forkI, spawned, server, stack,
                 registeredPaths, hstate, error>>

\* lines 155-159: the bind succeeded; the callback logs unless fork is set.
Listening(p) ==
  /\ pc[p] = "binding"
  /\ pc' = [pc EXCEPT ![p] = "listening"]
  /\ logs' = [logs EXCEPT ![p] =
       IF ~ForkSet(config) THEN Append(@, InfoServing(protocol(config))) ELSE @]
  /\ UNCHANGED <<exchange, config, ncpus, forkI, spawned, server, stack,
                 registeredPaths, hstate, error>>

\* lines 160-162: the bind failed; the 'error' listener logs e.message.
ListenError(p) ==
  /\ pc[p] = "binding"
  /\ \E e \in BindErrors :
       /\ logs' = [logs EXCEPT ![p] = Append(@, ErrorUnableToStart(e))]
       /\ error' = [error EXCEPT ![p] = e]
  /\ pc' = [pc EXCEPT ![p] = "bindError"]
  /\ UNCHANGED <<exchange, config, ncpus, forkI, spawned, server, stack,
                 registeredPaths, hstate>>

\* ------------------------------------------------------------ HTTP requests
\* req.body as the JSON body parser leaves it ({} when nothing was parsed).
Bodies ==
  { Obj([event |-> Obj([id |-> Num(42)])]),
    Obj([event |-> Num(7)]),
    Obj(<<>>) }

\* A request, with what its environment decides: whether the static root holds
\* a file for it, whether a loaded handler function passes it on with next(),
\* whether a subscriber listens on the bus.
Requests ==
  { r \in [method : {StrGet, StrPost},
           path : {PathRoot, PathA, PathAX, PathB, graphqlPath},
           body : Bodies,
           fileExists : BOOLEAN, handlerNext : BOOLEAN, subscribed : BOOLEAN] :
      /\ r.fileExists => (config.staticFiles /\ r.method = StrGet)
      /\ r.handlerNext =>
           \E i \in 1..Len(config.handlers) : config.handlers[i].kind = "handler" }

IsPrefix(a, b) == Len(a) <= Len(b) /\ SubSeq(b, 1, Len(a)) = a

\* express routing: app.use(path) matches every method and every path under
\* path; app.get / app.post match their method and the path itself.
matches(layer, req) ==
  IF layer.method = StrUse THEN IsPrefix(layer.path, req.path)
  ELSE layer.method = req.method /\ layer.path = req.path

\* What the handler of ./graphql-handler does with a request on graphqlPath:
\* it answers a POST and leaves a GET to the routes mounted after it.
graphqlHandles(req) == req.method = StrPost

\* Whether the layer answers the request, or passes it on to the next one.
answers(layer, req) ==
  CASE layer.kind \in {"cors", "json", "cookie", "pubsub", "public"} -> FALSE
    [] layer.kind = "static" -> req.fileExists
    [] layer.kind = "graphql" -> graphqlHandles(req)
    [] layer.kind = "dynamic" -> ~req.handlerNext
    [] OTHER -> TRUE

\* The walk of the route table: the first layer that matches and answers; the
\* pubSubHandler of lines 110-113 marks the request on its way.
RECURSIVE dispatch(_, _, _, _)
dispatch(st, k, req, pubsub) ==
  IF k > Len(st) THEN [handledBy |-> 0, pubsub |-> pubsub]
  ELSE IF matches(st[k], req) /\ answers(st[k], req)
       THEN [handledBy |-> k, pubsub |-> pubsub]
       ELSE dispatch(st, k + 1, req,
                     pubsub \/ (matches(st[k], req) /\ st[k].kind = "pubsub"))

Publish(topic, payload) == [topic |-> topic, payload |-> payload]

\* The handler of lines 124-131 written with the publish awaited: the
\* response waits for the subscribers.
webhookAwaitingPublish(h, req) ==
  LET payload == IF IsSome(h.payload) /\ Val(h.payload) # EmptyStr
                 THEN get(req.body, Val(h.payload)) ELSE req.body
  IN [publishes |-> <<Publish(h.pubsubTopic, payload)>>,
      ended |-> ~req.subscribed, status |-> 200]

\* lines 124-131: the webhook handler publishes the body, or the value at
\* handlerConfig.payload in it, and ends the response.
webhook(h, req) ==
  LET payload == IF IsSome(h.payload) /\ Val(h.payload) # EmptyStr
                 THEN get(req.body, Val(h.payload)) ELSE req.body
  IN [publishes |-> <<Publish(h.pubsubTopic, payload)>>,
      ended |-> TRUE, status |-> 200]

\* A listening process receives a request and routes it; the event loop runs
\* the matching handlers of one request to their end before the next one.
HandleRequest(p, req) ==
  /\ pc[p] = "listening"
  /\ exchange = None
  /\ LET r == dispatch(stack[p], 1, req, FALSE)
         layer == IF r.handledBy = 0 THEN Layer("notFound", StrUse, PathRoot, 0)
                  ELSE stack[p][r.handledBy]
         out == IF layer.kind = "bridge" THEN webhook(config.handlers[layer.idx], req)
                ELSE [publishes |-> <<>>, ended |-> TRUE,
                      status |-> IF layer.kind = "notFound" THEN 404 ELSE 200]
     IN exchange' = Some([proc |-> p, req |-> req, handledBy |-> r.handledBy,
                          kind |-> layer.kind, idx |-> layer.idx,
                          pubsub |-> r.pubsub, publishes |-> out.publishes,
                          ended |-> out.ended, status |-> out.status])
  /\ UNCHANGED <<config, ncpus, pc, forkI, spawned, server, stack,
                 registeredPaths, hstate, error, logs>>

\* The response of the exchange is out; the process is ready for another.
ResponseSent ==
  /\ exchange # None
  /\ exchange' = None
  /\ UNCHANGED <<config, ncpus, pc, forkI, spawned, server, stack,
                 registeredPaths, hstate, error, logs>>

Next ==
  \E p \in Procs :
    \/ Start(p)
    \/ ClusterFork(p)
    \/ LogForks(p)
    \/ CreateServer(p)
    \/ MountMiddleware(p)
    \/ MountStatic(p)
    \/ MountGraphql(p)
    \/ MapHandlers(p)
    \/ \E i \in 1..Len(config.handlers) : ResolveHandler(p, i)
    \/ HandlersRejected(p)
    \/ HandlersDone(p)
    \/ MountPlayground(p)
    \/ Listen(p)
    \/ Listening(p)
    \/ ListenError(p)

\* ================================================================== claims
Workers == Procs \ {0}
Supervisor(p) == isMaster(p) /\ ForkSet(config)
HasLog(p, m) == \E k \in 1..Len(logs[p]) : logs[p][k] = m
LogsServing(p) ==
  \E k \in 1..Len(logs[p]) :
    logs[p][k].level = "info" /\ logs[p][k].msg = "Serving GraphQL Mesh"
Started == {q \in Workers : pc[q] # "idle"}

\* forkCount as the claim gives it.
C1_ForkCount == IF Val(config.fork) > 1 THEN Val(config.fork) ELSE ncpus
\* C1: a master with fork set spawns exactly forkCount workers, forkCount being
\* fork when fork > 1 and the number of CPU cores otherwise: never more while
\* the loop runs, exactly forkCount once it is over, one worker per spawn call.
C1_SpawnsExactlyForkCount ==
  ForkSet(config) =>
    /\ spawned[0] <= C1_ForkCount
    /\ pc[0] = "supervising" => spawned[0] = C1_ForkCount
    /\ Cardinality(Started) = spawned[0]

C1_Witness ==
  /\ config.fork = Some(2) /\ ncpus = 1
  /\ pc[0] = "supervising" /\ spawned[0] = 2

BindAttempted(p) == pc[p] \in {"binding", "listening", "bindError"}
Over(p) == pc[p] = "rejected" \/ BindAttempted(p)
HasLayer(p, kind) == \E k \in 1..Len(stack[p]) : stack[p][k].kind = kind
FullSetup(p) ==
  /\ server[p] = protocol(config)
  /\ \A kind \in {"json", "cookie", "graphql", "pubsub"} : HasLayer(p, kind)
  /\ \A i \in 1..Len(config.handlers) :
       \E k \in 1..Len(stack[p]) : stack[p][k].idx = i
  /\ playgroundEnabled(config) => HasLayer(p, "playground")

\* C3 as stated: a master with fork set never creates, configures or binds a
\* listener; every other process runs the full listener setup and attempts to
\* bind.
C3_Original ==
  \A p \in Procs :
    /\ Supervisor(p) => server[p] = "none" /\ stack[p] = <<>> /\ ~Over(p)
    /\ (~Supervisor(p) /\ Over(p)) => (BindAttempted(p) /\ FullSetup(p))

\* C3 as amended: a master with fork set never creates, configures or binds a
\* listener and only forks; every other process takes the listener branch,
\* never forks, and either runs the full listener setup and attempts to bind,
\* or a start-up step failed (reading the TLS files, resolving or mounting a
\* handler, loading the example query) and serveMesh rejects without binding.
C3_RoleSeparation ==
  \A p \in Procs :
    /\ Supervisor(p) =>
         /\ server[p] = "none" /\ stack[p] = <<>>
         /\ pc[p] \in {"start", "fork", "supervising"}
    /\ ~Supervisor(p) =>
         /\ pc[p] \notin {"fork", "supervising"} /\ spawned[p] = 0
         /\ BindAttempted(p) => FullSetup(p)
         /\ pc[p] = "rejected" =>
              error[p] \in {"readFile", "loadError", "typeError", "loadDocuments"}

C3_Witness ==
  /\ ForkSet(config) /\ pc[0] = "supervising"
  /\ \E p \in Workers : pc[p] = "listening" /\ FullSetup(p)
  /\ \E p \in Workers : pc[p] = "rejected"

\* C4 as stated: a failed bind is logged with the causing error message, the
\* process never serves, and no 'Serving GraphQL Mesh' message is logged for
\* the listener that failed, neither by its process nor by the master that
\* forked it.
C4_Original ==
  \A p \in Procs :
    pc[p] = "bindError" =>
      /\ HasLog(p, ErrorUnableToStart(error[p]))
      /\ ~LogsServing(p)
      /\ ~LogsServing(0)

Spec == Init /\ [][Next]_vars

\* ------------------------------------------------- claims on the route table
Mounted(p, i) == \E k \in 1..Len(stack[p]) : stack[p][k].idx = i
PositionOf(p, i) == CHOOSE k \in 1..Len(stack[p]) : stack[p][k].idx = i
IsDynamic(i) == config.handlers[i].kind = "handler"
IsBridge(i) == config.handlers[i].kind = "pubsubTopic"

\* C5 as stated: the handler entries are mounted in configuration order: of
\* two mounted entries i < j, of either kind, entry i is on the router before
\* entry j.
C5_Original ==
  \A p \in Procs : \A i, j \in 1..Len(config.handlers) :
    (i < j /\ Mounted(p, i) /\ Mounted(p, j)) =>
      PositionOf(p, i) < PositionOf(p, j)

\* The express method an entry declares, read case-insensitively.
C6_Declared(i) ==
  IF ~IsSome(config.handlers[i].method) \/ Val(config.handlers[i].method) = EmptyStr
  THEN StrUse
  ELSE IF Val(config.handlers[i].method) \in {StrGET, StrGet} THEN StrGet
       ELSE StrPost
\* C6 as stated: a dynamic handler is mounted under its declared method,
\* compared case-insensitively, and one with no method declared is mounted for
\* all methods instead of failing start-up.
C6_Original ==
  \A p \in Procs : \A i \in 1..Len(config.handlers) :
    IsDynamic(i) =>
      /\ Mounted(p, i) => stack[p][PositionOf(p, i)].method = C6_Declared(i)
      /\ hstate[p][i] # "typeError"
      /\ ~IsSome(config.handlers[i].method) => error[p] # "typeError"

ResolutionFailed(p) ==
  \E i \in 1..Len(config.handlers) : hstate[p][i] = "loadError"
\* C7: once the resolution of a dynamic handler has failed in a process, that
\* process never goes on to listen: it is never past the await of the handlers,
\* never bound, and serves no request.
C7_ResolutionFailureIsFatal ==
  \A p \in Procs :
    ResolutionFailed(p) =>
      /\ pc[p] \in {"awaitHandlers", "rejected"}
      /\ ~BindAttempted(p)
      /\ exchange = None \/ Val(exchange).proc # p

C7_Witness ==
  /\ ResolutionFailed(0) /\ pc[0] = "rejected" /\ error[0] = "loadError"
  /\ \E i \in 1..Len(config.handlers) : IsDynamic(i) /\ Mounted(0, i)

\* The payload the claim gives for a webhook entry and a body.
C8_Payload(h, body) ==
  IF ~IsSome(h.payload) THEN body
  ELSE IF Val(h.payload) = <<"event">>
       THEN (IF "event" \in DOMAIN body.f THEN body.f.event ELSE Undefined)
       ELSE (IF "event" \in DOMAIN body.f /\ body.f.event.t = "object"
                /\ "id" \in DOMAIN body.f.event.f
             THEN body.f.event.f.id ELSE Undefined)
\* A route mounted before the handler entries answers the request.
C8_EarlierAnswer(x) ==
  \E k \in 1..Len(stack[x.proc]) :
    /\ stack[x.proc][k].kind \in {"static", "index", "graphql"}
    /\ matches(stack[x.proc][k], x.req) /\ answers(stack[x.proc][k], x.req)
C14_Get(path) ==
  /\ exchange # None
  /\ config.staticFiles /\ playgroundEnabled(config)
  /\ Val(exchange).req.method = StrGet /\ Val(exchange).req.path = path

\* C14 as stated: with a static root and the playground both on, GET / is
\* served by the static assets and never by the playground, and GET on the
\* GraphQL path is served by the playground.
C14_Original ==
  /\ C14_Get(PathRoot) => Val(exchange).kind \in {"static", "index"}
  /\ C14_Get(graphqlPath) => Val(exchange).kind = "playground"

\* C14 as amended: with a static root and the playground both on, GET / is
\* never served by the playground; it is served by the static assets when the
\* static root holds an index document, and otherwise falls through to the
\* routes mounted later (404 when none answers); GET on the GraphQL path is
\* served by the playground unless a route mounted before it answers (a static
\* file of that name, the GraphQL handler, a configured handler entry).
C14_StaticRootNotPlayground ==
  /\ C14_Get(PathRoot) =>
       LET x == Val(exchange) IN
         /\ x.kind # "playground"
         /\ (x.req.fileExists \/ HasLayer(x.proc, "index"))
              => x.kind \in {"static", "index"}
         /\ ~(x.req.fileExists \/ HasLayer(x.proc, "index"))
              => x.kind \in {"notFound", "bridge", "dynamic"}
  /\ C14_Get(graphqlPath) =>
       LET x == Val(exchange) IN
         /\ x.kind \in {"static", "graphql", "bridge", "dynamic", "playground"}
         /\ x.kind = "static" => x.req.fileExists
         /\ (~x.req.fileExists /\ ~graphqlHandles(x.req)
             /\ \A i \in 1..Len(config.handlers) :
                  ~IsPrefix(config.handlers[i].path, graphqlPath))
              => x.kind = "playground"

C14_Witness ==
  /\ C14_Get(PathRoot)
  /\ Val(exchange).kind = "notFound"
  /\ ~HasLayer(0, "index")
  /\ HasLayer(0, "playground")

\* C15 as stated: every start-up error (bind failure, unreadable TLS key or
\* certificate, handler-resolution failure) keeps the process from serving and
\* is logged with its cause; none leaves the process bound with part of its
\* routes.
C15_Original ==
  \A p \in Procs :
    error[p] # "none" =>
      /\ pc[p] \in {"rejected", "bindError"}
      /\ exchange = None \/ Val(exchange).proc # p
      /\ HasLog(p, ErrorUnableToStart(error[p]))

\* The number of 'Serving GraphQL Mesh' messages a process has logged.
ServingCount(p) ==
  Cardinality({k \in 1..Len(logs[p]) :
                 logs[p][k].level = "info" /\ logs[p][k].msg = "Serving GraphQL Mesh"})

\* C16: the serving message is logged at most once per deployment; with fork
\* set the master logs it exactly once, with the URL and the resolved fork
\* count, when its fork loop is over, and no worker ever logs it, bound or not;
\* with fork absent or zero the single process has logged it, with the URL,
\* exactly when its bind has succeeded.
C16_ServingLoggedOnce ==
  \A p \in Procs :
    IF ForkSet(config)
    THEN IF isMaster(p)
         THEN /\ ServingCount(p) = (IF pc[p] = "supervising" THEN 1 ELSE 0)
              /\ pc[p] = "supervising" =>
                   HasLog(p, InfoServingForks(protocol(config), C1_ForkCount))
         ELSE ServingCount(p) = 0
    ELSE /\ ServingCount(p) = (IF pc[p] = "listening" THEN 1 ELSE 0)
         /\ pc[p] = "listening" => HasLog(p, InfoServing(protocol(config)))

C16_Witness ==
  /\ ForkSet(config) /\ pc[0] = "supervising" /\ ServingCount(0) = 1
  /\ \E p \in Workers : pc[p] = "listening" /\ ServingCount(p) = 0

\* C17: a request answered by a configured handler entry (dynamic handler or
\* webhook bridge) went through the pubsub injection middleware first, and in
\* every route table the injection middleware precedes every layer of a
\* configured handler entry, whenever that entry was mounted.
C17_PubsubBeforeHandlers ==
  /\ exchange # None /\ Val(exchange).kind \in {"bridge", "dynamic"}
       => Val(exchange).pubsub
  /\ \A p \in Procs : \A k \in 1..Len(stack[p]) :
       stack[p][k].idx > 0 =>
         \E j \in 1..(k - 1) :
           stack[p][j].kind = "pubsub" /\ stack[p][j].path = PathRoot

C17_Witness ==
  /\ exchange # None /\ Val(exchange).kind = "dynamic" /\ Val(exchange).pubsub
  /\ Len(config.handlers) = 2
  /\ IsBridge(1) /\ IsDynamic(2)
  /\ Val(exchange).idx = 2

\* Enablement as the claim gives it.
C18_Enabled ==
  IF config.playground # None THEN Val(config.playground)
  ELSE config.nodeEnv \notin {Some(StrProduction), Some(StrPRODUCTION)}

PastMounting(p) == pc[p] \in {"listen", "binding", "listening", "bindError"}
\* C18: playground routes are in a route table only if the playground is
\* enabled, and a process whose mounting is over has them exactly if it is
\* enabled; enabled is the explicit flag when given and otherwise holds unless
\* NODE_ENV is 'production' in any letter case; the routes come after the
\* layer of every configured handler entry, all of which are mounted by then.
C18_PlaygroundIffEnabled ==
  \A p \in Procs :
    /\ HasLayer(p, "playground") => C18_Enabled
    /\ PastMounting(p) => (C18_Enabled <=> HasLayer(p, "playground"))
    /\ \A k \in 1..Len(stack[p]) :
         stack[p][k].kind = "playground" =>
           \A i \in 1..Len(config.handlers) :
             \E j \in 1..(k - 1) : stack[p][j].idx = i

C18_Witness ==
  /\ config.playground = None /\ config.nodeEnv = Some(StrPRODUCTION)
  /\ pc[0] = "listening" /\ ~HasLayer(0, "playground")
  /\ Len(config.handlers) = 2

\* The route table of a process whose mounting is complete.
TableComplete(p) ==
  /\ \A i \in 1..Len(config.handlers) : hstate[p][i] = "mounted"
  /\ \A i \in 1..Len(config.handlers) : Mounted(p, i)
  /\ playgroundEnabled(config) =>
       /\ HasLayer(p, "playground") /\ HasLayer(p, "public")
       /\ stack[p][Len(stack[p])].kind = "public"
  /\ ~playgroundEnabled(config) => ~HasLayer(p, "playground")

\* C19: a process attempts to bind only once its server exists (the TLS files
\* read when configured), every configured handler entry is resolved and
\* mounted and the playground routes, when enabled, are registered; the route
\* table never changes afterwards, and every request is routed by a process
\* in that state.
C19_BindAfterMounting ==
  /\ \A p \in Procs :
       BindAttempted(p) =>
         /\ server[p] = protocol(config)
         /\ error[p] \in {"none"} \cup BindErrors
         /\ TableComplete(p)
  /\ exchange # None =>
       /\ pc[Val(exchange).proc] = "listening"
       /\ TableComplete(Val(exchange).proc)

C19_Witness ==
  /\ pc[0] = "listening" /\ server[0] = "https"
  /\ Len(config.handlers) = 2 /\ IsDynamic(1) /\ IsDynamic(2)
  /\ exchange # None /\ Val(exchange).kind = "playground"

\* One process, fork absent: its start-up and the requests it then serves.
InitRoutes ==
  /\ config \in RouteConfigs
  /\ ncpus = 1
  /\ Boot

NextRoutes ==
  \/ Start(0)
  \/ CreateServer(0)
  \/ MountMiddleware(0)
  \/ MountStatic(0)
  \/ MountGraphql(0)
  \/ MapHandlers(0)
  \/ \E i \in 1..Len(config.handlers) : ResolveHandler(0, i)
  \/ HandlersRejected(0)
  \/ HandlersDone(0)
  \/ MountPlayground(0)
  \/ Listen(0)
  \/ Listening(0)
  \/ ListenError(0)
  \/ \E req \in Requests : HandleRequest(0, req)
  \/ ResponseSent

SpecRoutes == InitRoutes /\ [][NextRoutes]_vars

====
